---- MODULE Spec2Model ----
(***************************************************************************)
(* Model of the embedded-relay decryptor (edge-relays.cpp) and of the      *)
(* arithmetic demo module (demo.c).                                        *)
(*                                                                         *)
(* Bytes (uint8_t, char) are integers 0..255.  A uint32_t is the pair      *)
(* <<lo, hi>> of its 16-bit halves, so that every intermediate sum stays   *)
(* inside TLC's integer range while the arithmetic is exactly the         *)
(* 32-bit wrapping arithmetic of the source.  Byte order is little-endian  *)
(* (the wasm32 target of the build).  C arrays keep their 0-based indices  *)
(* as functions over 0..n-1; byte strings are sequences.                   *)
(*                                                                         *)
(* CHOOSE r \in {F(x) : x \in {e}} : TRUE is F applied to the value of e,   *)
(* computed once: it is how a C local that is assigned once and read       *)
(* several times is written here.                                          *)
(***************************************************************************)
EXTENDS Integers, Sequences, FiniteSets, TLC

VARIABLES
    KEY_MATERIAL,       \* embedded 64-byte obfuscated key (edge-relays-data.h)
    ENCRYPTED_RELAYS,   \* embedded blob nonce(24) || ciphertext || tag(16)
    cached_result,      \* static std::string cached_result
    key,                \* bytes left in the stack buffer uint8_t key[32]
    last,               \* the last exported call: operation, outcome, result
    calls,              \* exported calls made so far
    decrypt_calls,      \* instrumented count of chacha20_decrypt runs
    rets,               \* texts returned by get_edge_relays, in call order
    counts,             \* values returned by get_relay_count, in call order
    cache_buf,          \* id of the heap buffer cached_result owns (0: none)
    torn,               \* thread in the middle of writing cached_result (0: none)
    thr,                \* per thread: pc, local buffers, returned pointer
    cipher,             \* harness around chacha20_decrypt
    pair,               \* two builds of the decryptor side by side
    demo                \* locals of the running demo.c function

vars == <<KEY_MATERIAL, ENCRYPTED_RELAYS, cached_result, key, last, calls,
          decrypt_calls, rets, counts, cache_buf, torn, thr, cipher, pair, demo>>

\* ---------------------------------------------------------------------
\* Bounds of the model
\* ---------------------------------------------------------------------
MaxCalls == 3       \* exported calls per behaviour
MaxCipherLen == 129 \* longest buffer given to chacha20_decrypt (3 chunks)
IntBits == 4        \* width standing for the 32 bits of int32_t in demo.c
MaxTextLen == 2     \* every embedded text over Alphabet up to this length

\* ---------------------------------------------------------------------
\* Program constants
\* ---------------------------------------------------------------------
KEY_LEN == 32       \* uint8_t key[32]
NONCE_FIELD == 24   \* ENCRYPTED_RELAYS + 24
TAG_LEN == 16       \* - 16, the trailing tag
BLOCK_LEN == 64     \* i += 64
SLASH == 47         \* '/'
QUOTE == 34         \* '"'
NUL == 0            \* the terminator written at decrypted[ciphertext_len]

\* ---------------------------------------------------------------------
\* uint32_t arithmetic
\* ---------------------------------------------------------------------
RECURSIVE XorBits(_, _, _)
XorBits(a, b, n) ==
    IF n = 0 THEN 0
    ELSE ((a + b) % 2) + 2 * XorBits(a \div 2, b \div 2, n - 1)

XorNibble == [x \in 0..15 |-> [y \in 0..15 |-> XorBits(x, y, 4)]]

\* a ^ b on bytes
XorByte(a, b) ==
    XorNibble[a % 16][b % 16] + 16 * XorNibble[a \div 16][b \div 16]

Xor16(a, b) ==
    XorByte(a % 256, b % 256) + 256 * XorByte(a \div 256, b \div 256)

\* a ^ b on uint32_t
Xor32(a, b) == <<Xor16(a[1], b[1]), Xor16(a[2], b[2])>>

\* a + b on uint32_t, wrapping modulo 2^32
Add32(a, b) ==
    LET lo == a[1] + b[1]
        hi == a[2] + b[2] + (lo \div 65536)
    IN  <<lo % 65536, hi % 65536>>

Pow2(n) == 2 ^ n

\* (w << n) | (w >> (32 - n)) on uint32_t, for the rotations 16, 12, 8, 7
Rotl32(w, n) ==
    IF n = 16 THEN <<w[2], w[1]>>
    ELSE <<((w[1] * Pow2(n)) % 65536) + (w[2] \div Pow2(16 - n)),
           ((w[2] * Pow2(n)) % 65536) + (w[1] \div Pow2(16 - n))>>

\* the uint32_t read from four bytes at offset off (0-based) of a byte string
WordAt(bytes, off) ==
    <<bytes[off + 1] + 256 * bytes[off + 2], bytes[off + 3] + 256 * bytes[off + 4]>>

\* byte j (0..3) of a uint32_t in memory
ByteOfWord(w, j) ==
    CASE j = 0 -> w[1] % 256
      [] j = 1 -> w[1] \div 256
      [] j = 2 -> w[2] % 256
      [] j = 3 -> w[2] \div 256

\* ---------------------------------------------------------------------
\* chacha20_block
\* ---------------------------------------------------------------------
\* a += b; d ^= a; d = rotl(d, 16); c += d; b ^= c; b = rotl(b, 12);
\* a += b; d ^= a; d = rotl(d, 8);  c += d; b ^= c; b = rotl(b, 7);
QUARTERROUND(s, a, b, c, d) ==
    LET a1 == Add32(s[a], s[b])
        d1 == Rotl32(Xor32(s[d], a1), 16)
        c1 == Add32(s[c], d1)
        b1 == Rotl32(Xor32(s[b], c1), 12)
        a2 == Add32(a1, b1)
        d2 == Rotl32(Xor32(d1, a2), 8)
        c2 == Add32(c1, d2)
        b2 == Rotl32(Xor32(b1, c2), 7)
    IN  [s EXCEPT ![a] = a2, ![b] = b2, ![c] = c2, ![d] = d2]

\* one pass of the loop body of chacha20_block: the eight quarter rounds
DoubleRound(s) ==
    QUARTERROUND(
     QUARTERROUND(
      QUARTERROUND(
       QUARTERROUND(
        QUARTERROUND(
         QUARTERROUND(
          QUARTERROUND(
           QUARTERROUND(s, 0, 4, 8, 12),
           1, 5, 9, 13),
          2, 6, 10, 14),
         3, 7, 11, 15),
        0, 5, 10, 15),
       1, 6, 11, 12),
      2, 7, 8, 13),
     3, 4, 9, 14)

\* for (int i = 0; i < 10; i++) { ... }
RECURSIVE Rounds(_, _)
Rounds(s, i) ==
    IF ~(i < 10) THEN s
    ELSE CHOOSE out \in {Rounds(r, i + 1) : r \in {DoubleRound(s)}} : TRUE

\* for (int i = 0; i < 16; i++) output[i] += input[i];
RECURSIVE AddInput(_, _, _)
AddInput(output, input, i) ==
    IF ~(i < 16) THEN output
    ELSE CHOOSE out \in
            {AddInput(o, input, i + 1) :
                o \in {[output EXCEPT ![i] = Add32(output[i], input[i])]}} : TRUE

\* output[] after chacha20_block(output, input); input is 16 words, 0..15
chacha20_block(input) ==
    AddInput(Rounds(input, 0), input, 0)

\* ((uint8_t*)keystream)[j], j in 0..63
KeystreamByte(keystream, j) == ByteOfWord(keystream[j \div 4], j % 4)

\* ---------------------------------------------------------------------
\* chacha20_decrypt
\* ---------------------------------------------------------------------
SIGMA ==
    <<<<30821, 24944>>, <<25710, 13088>>, <<11570, 31074>>, <<25972, 27424>>>>

\* memcpy(&state[14], nonce, 12) into state[13..15]: the 96-bit nonce layout
InitState_nonce12(k, nonce) ==
    [i \in 0..15 |->
        IF i < 4 THEN SIGMA[i + 1]
        ELSE IF i < 12 THEN WordAt(k, 4 * (i - 4))
        ELSE IF i = 12 THEN <<0, 0>>
        ELSE WordAt(nonce, 4 * (i - 13))]

\* uint32_t state[16] = {...}; memcpy(&state[4], key, 32);
\* memcpy(&state[14], nonce, 8);
InitState(k, nonce) ==
    [i \in 0..15 |->
        IF i < 4 THEN SIGMA[i + 1]
        ELSE IF i < 12 THEN WordAt(k, 4 * (i - 4))
        ELSE IF i < 14 THEN <<0, 0>>
        ELSE WordAt(nonce, 4 * (i - 14))]

\* the keystream is generated before the counter is incremented
LoopStep_postinc(state) ==
    [state |-> [state EXCEPT ![12] = Add32(state[12], <<1, 0>>)],
     keystream |-> chacha20_block(state)]

\* state[12]++; chacha20_block(keystream, state);
LoopStep(state) ==
    LET st == [state EXCEPT ![12] = Add32(state[12], <<1, 0>>)]
    IN  [state |-> st, keystream |-> chacha20_block(st)]

\* the byte is combined with the keystream by addition
decrypt_byte_add(inb, ksb) == (inb + ksb) % 256

\* input[i + j] ^ ((uint8_t*)keystream)[j]
decrypt_byte(inb, ksb) == XorByte(inb, ksb)

\* for (size_t j = 0; j < chunk; j++) output[i + j] = input[i + j] ^ ...[j];
xor_chunk(output, input, keystream, i, chunk) ==
    CHOOSE out \in
        {SubSeq(o, 1, i)
         \o [j \in 1..chunk |->
                decrypt_byte(input[i + j], KeystreamByte(keystream, j - 1))]
         \o SubSeq(o, i + chunk + 1, Len(o))
         : o \in {output}} : TRUE

\* for (size_t i = 0; i < len; i += 64) { ... }, from offset i on
RECURSIVE decrypt_loop(_, _, _, _, _)
decrypt_loop(output, input, len, state, i) ==
    IF ~(i < len) THEN output
    ELSE CHOOSE out \in
            {decrypt_loop(
                xor_chunk(output, input, step.keystream, i,
                          IF len - i < BLOCK_LEN THEN len - i ELSE BLOCK_LEN),
                input, len, step.state, i + BLOCK_LEN)
             : step \in {LoopStep(state)}} : TRUE

\* the first len bytes chacha20_decrypt writes to an output buffer that holds
\* `output` before the call
chacha20_decrypt(output, input, len, k, nonce) ==
    decrypt_loop(output, input, len, InitState(k, nonce), 0)

\* ---------------------------------------------------------------------
\* get_edge_relays
\* ---------------------------------------------------------------------
Zeros(n) == <<>> \o [i \in 1..n |-> 0]

\* new uint8_t[n]: n bytes of indeterminate content (-1: not yet written)
new_bytes(n) == <<>> \o [i \in 1..n |-> -1]

\* std::string((char*)p): the bytes before the first NUL
RECURSIVE strlen(_, _)
strlen(bytes, n) == IF bytes[n + 1] = NUL THEN n ELSE strlen(bytes, n + 1)

CStr(bytes) ==
    CHOOSE t \in {SubSeq(b, 1, strlen(b, 0)) : b \in {bytes}} : TRUE

\* for (i < 32) key[i] = KEY_MATERIAL[i] ^ KEY_MATERIAL[32 + i];
DeobfuscateKey(material) ==
    <<>> \o [i \in 1..KEY_LEN |-> XorByte(material[i], material[KEY_LEN + i])]

\* the buffer `decrypted` after decrypted[ciphertext_len] = 0
DecryptedBuffer(material, blob) ==
    LET ciphertext_len == Len(blob) - NONCE_FIELD - TAG_LEN
    IN  CHOOSE buf \in
            {[decrypted EXCEPT ![ciphertext_len + 1] = NUL] :
                decrypted \in
                    {chacha20_decrypt(new_bytes(ciphertext_len + 1),
                                      SubSeq(blob, NONCE_FIELD + 1,
                                             NONCE_FIELD + ciphertext_len),
                                      ciphertext_len, DeobfuscateKey(material),
                                      blob)}} : TRUE

\* no early return on a populated cache, and the result is appended (+=)
get_edge_relays_call_append(material, blob, cached, keybuf, fail) ==
    IF fail = "new"
    THEN [cached |-> cached, key |-> DeobfuscateKey(material),
          outcome |-> "threw", ret |-> <<>>, ran |-> 0, derived |-> TRUE]
    ELSE CHOOSE r \in
            {IF fail = "string" /\ text # <<>>
             THEN [cached |-> cached, key |-> DeobfuscateKey(material),
                   outcome |-> "threw", ret |-> <<>>, ran |-> 1,
                   derived |-> TRUE]
             ELSE [cached |-> cached \o text, key |-> Zeros(KEY_LEN),
                   outcome |-> "returned", ret |-> cached \o text, ran |-> 1,
                   derived |-> TRUE]
             : text \in {CStr(DecryptedBuffer(material, blob))}} : TRUE

\* One call of get_edge_relays on the cache `cached`, with the stack slot of
\* key[] holding `keybuf` on entry.  fail names the allocation that fails:
\* "new" (new uint8_t[ciphertext_len + 1] throws), "string" (the allocation
\* of the std::string throws; an empty string allocates nothing) or "none".
\* Result: the cache and the key slot on exit, how control left, the text
\* returned, whether chacha20_decrypt ran, whether the key was derived.
get_edge_relays_call(material, blob, cached, keybuf, fail) ==
    IF cached # <<>>
    THEN [cached |-> cached, key |-> keybuf, outcome |-> "returned",
          ret |-> cached, ran |-> 0, derived |-> FALSE]
    ELSE IF fail = "new"
    THEN [cached |-> cached, key |-> DeobfuscateKey(material),
          outcome |-> "threw", ret |-> <<>>, ran |-> 0, derived |-> TRUE]
    ELSE CHOOSE r \in
            {IF fail = "string" /\ text # <<>>
             THEN [cached |-> cached, key |-> DeobfuscateKey(material),
                   outcome |-> "threw", ret |-> <<>>, ran |-> 1,
                   derived |-> TRUE]
             ELSE [cached |-> text, key |-> Zeros(KEY_LEN),
                   outcome |-> "returned", ret |-> text, ran |-> 1,
                   derived |-> TRUE]
             : text \in {CStr(DecryptedBuffer(material, blob))}} : TRUE

\* ---------------------------------------------------------------------
\* get_relay_count
\* ---------------------------------------------------------------------
\* the loop body with slashes never reset
ScanStep_noreset(st, ch) ==
    LET s1 == IF ch = SLASH THEN st.slashes + 1 ELSE st.slashes
    IN  IF ch = QUOTE /\ s1 > 0
        THEN [count |-> st.count + 1, slashes |-> s1]
        ELSE [count |-> st.count, slashes |-> s1]

\* if (*p == '/') slashes++; if (*p == '"' && slashes > 0) { count++; slashes = 0; }
ScanStep(st, ch) ==
    LET s1 == IF ch = SLASH THEN st.slashes + 1 ELSE st.slashes
    IN  IF ch = QUOTE /\ s1 > 0
        THEN [count |-> st.count + 1, slashes |-> 0]
        ELSE [count |-> st.count, slashes |-> s1]

\* for (const char* p = json; *p; p++) { ... } return count;
RECURSIVE relay_count_loop(_, _, _)
relay_count_loop(json, p, st) ==
    IF json[p] = NUL THEN st.count
    ELSE relay_count_loop(json, p + 1, ScanStep(st, json[p]))

\* cached_result.c_str(): the text followed by its terminator
c_str(text) == text \o <<NUL>>

\* ---------------------------------------------------------------------
\* Embedded data (edge-relays-data.h, produced at build time)
\* ---------------------------------------------------------------------
ExampleJson ==
    <<123, 34, 114, 101, 108, 97, 121, 115, 34, 58, 91, 34, 97, 47, 49, 34,
      44, 34, 98, 47, 50, 34, 44, 34, 99, 47, 51, 34, 93, 125>>

QuotedList ==
    <<34, 97, 47, 98, 34, 32, 34, 99, 34, 32, 34, 100, 47, 101, 47, 102, 34>>

MaterialA == [i \in 1..(2 * KEY_LEN) |-> (7 * i + 1) % 256]
MaterialB == [i \in 1..(2 * KEY_LEN) |-> IF i <= KEY_LEN THEN 255 - i ELSE i]

NonceField == [i \in 1..NONCE_FIELD |-> (11 * i) % 256]
Tag == [i \in 1..TAG_LEN |-> 200 + i]

\* nonce(24) || ciphertext || tag(16) for the plaintext given
EmbeddedBlob(material, noncefield, plaintext, tag) ==
    noncefield
    \o chacha20_decrypt(new_bytes(Len(plaintext)), plaintext, Len(plaintext),
                        DeobfuscateKey(material), noncefield)
    \o tag

Alphabet == {NUL, SLASH, QUOTE, 97}

RECURSIVE TextsOfLen(_)
TextsOfLen(n) ==
    IF n = 0 THEN {<<>>}
    ELSE {Append(t, ch) : t \in TextsOfLen(n - 1), ch \in Alphabet}

ShortTexts == UNION {TextsOfLen(n) : n \in 0..MaxTextLen}

EmbeddedData ==
    {[material |-> MaterialA,
      blob |-> EmbeddedBlob(MaterialA, NonceField, t, Tag)] : t \in ShortTexts}
    \cup
    {[material |-> m, blob |-> EmbeddedBlob(m, NonceField, t, Tag)] :
        m \in {MaterialA, MaterialB},
        t \in {ExampleJson, QuotedList, <<QUOTE, SLASH, QUOTE, NUL, SLASH, QUOTE>>}}

\* ---------------------------------------------------------------------
\* The single-threaded program: any sequence of exported calls
\* ---------------------------------------------------------------------
AllocFailure == {"none", "new", "string"}

IdleThreads == <<>>
IdleCipher == [stage |-> "off"]
IdlePair == [stage |-> "off"]
IdleDemo == [pc |-> "off"]

Init ==
    /\ \E e \in EmbeddedData :
        /\ KEY_MATERIAL = e.material
        /\ ENCRYPTED_RELAYS = e.blob
    /\ cached_result = <<>>
    /\ key = Zeros(KEY_LEN)
    /\ last = [op |-> "none", outcome |-> "none", ret |-> <<>>, count |-> 0,
               derived |-> FALSE]
    /\ calls = 0
    /\ decrypt_calls = 0
    /\ rets = <<>>
    /\ counts = <<>>
    /\ cache_buf = 0
    /\ torn = 0
    /\ thr = IdleThreads
    /\ cipher = IdleCipher
    /\ pair = IdlePair
    /\ demo = IdleDemo

get_edge_relays ==
    /\ calls < MaxCalls
    /\ \E fail \in AllocFailure :
        /\ fail # "none" => cached_result = <<>>
        /\ \E r \in {get_edge_relays_call(KEY_MATERIAL, ENCRYPTED_RELAYS,
                                          cached_result, key, fail)} :
            /\ cached_result' = r.cached
            /\ key' = r.key
            /\ decrypt_calls' = decrypt_calls + r.ran
            /\ last' = [op |-> "get_edge_relays", outcome |-> r.outcome,
                        ret |-> r.ret, count |-> 0, derived |-> r.derived]
            /\ rets' = IF r.outcome = "returned" THEN Append(rets, r.ret) ELSE rets
    /\ calls' = calls + 1
    /\ UNCHANGED <<KEY_MATERIAL, ENCRYPTED_RELAYS, counts, cache_buf, torn, thr,
                   cipher, pair, demo>>

get_relay_count ==
    /\ calls < MaxCalls
    /\ \E fail \in AllocFailure :
        /\ fail # "none" => cached_result = <<>>
        /\ \E r \in {get_edge_relays_call(KEY_MATERIAL, ENCRYPTED_RELAYS,
                                          cached_result, key, fail)} :
            /\ cached_result' = r.cached
            /\ key' = r.key
            /\ decrypt_calls' = decrypt_calls + r.ran
            /\ \E count \in {IF r.outcome = "returned"
                             THEN relay_count_loop(c_str(r.ret), 1,
                                                   [count |-> 0, slashes |-> 0])
                             ELSE 0} :
                /\ last' = [op |-> "get_relay_count", outcome |-> r.outcome,
                            ret |-> <<>>, count |-> count, derived |-> r.derived]
                /\ counts' = IF r.outcome = "returned"
                             THEN Append(counts, count) ELSE counts
    /\ calls' = calls + 1
    /\ UNCHANGED <<KEY_MATERIAL, ENCRYPTED_RELAYS, rets, cache_buf, torn, thr,
                   cipher, pair, demo>>

Next == get_edge_relays \/ get_relay_count

Spec == Init /\ [][Next]_vars

\* ---------------------------------------------------------------------
\* Claims about the single-threaded program (checked under Spec)
\* ---------------------------------------------------------------------

\* C1: a sequence of N > 1 calls of get_edge_relays runs the deobfuscate and
\* decrypt pipeline exactly once, and all N calls return the same text.
C1_PipelineRunsOnce ==
    (calls >= 2 /\ Len(rets) = calls) =>
        /\ decrypt_calls = 1
        /\ \A i, j \in 1..Len(rets) : rets[i] = rets[j]

\* C2: whenever a call has derived the key into key[], the 32 bytes of key[]
\* are zero when control has left get_edge_relays, on every exit path.
C2_KeyWipedOnExit == last.derived => key = Zeros(KEY_LEN)

\* C3: the text cached and returned by get_edge_relays has length
\* ENCRYPTED_RELAYS_LEN - 24 - 16, whatever bytes decryption produces.
C3_PlaintextLength ==
    (last.op = "get_edge_relays" /\ last.outcome = "returned") =>
        /\ Len(last.ret) = Len(ENCRYPTED_RELAYS) - NONCE_FIELD - TAG_LEN
        /\ Len(cached_result) = Len(ENCRYPTED_RELAYS) - NONCE_FIELD - TAG_LEN

\* The scan as the specification words it: after k characters, the pair
\* <<result, slashes>>.
ClaimScan(text) ==
    LET f[k \in 0..Len(text)] ==
            IF k = 0 THEN <<0, 0>>
            ELSE LET prev == f[k - 1]
                     sl == IF text[k] = 47 THEN prev[2] + 1 ELSE prev[2]
                 IN  IF text[k] = 34 /\ sl > 0
                     THEN <<prev[1] + 1, 0>>
                     ELSE <<prev[1], sl>>
    IN  f[Len(text)][1]

\* C7: get_relay_count returns the result of the left-to-right scan with a
\* slash counter that a counted double-quote resets; the example text of
\* three relays yields 3 and a text of two double-quotes yields 0.
C7_RelayCountScan ==
    (last.op = "get_relay_count" /\ last.outcome = "returned") =>
        /\ last.count = ClaimScan(cached_result)
        /\ cached_result = ExampleJson => last.count = 3
        /\ cached_result = <<34, 34>> => last.count = 0

C7_Witness ==
    /\ last.op = "get_relay_count"
    /\ last.outcome = "returned"
    /\ cached_result = ExampleJson
    /\ last.count = 3

\* C10: every get_relay_count call recomputes its result from the cached
\* plaintext, populating the cache first when it is unpopulated, leaves a
\* populated cache unchanged, and returns what every other call returned.
C10_CountRecomputed ==
    /\ [](\A i, j \in 1..Len(counts) : counts[i] = counts[j])
    /\ [][(last'.op = "get_relay_count" /\ calls' = calls + 1) =>
            /\ cached_result # <<>> => cached_result' = cached_result
            /\ last'.outcome = "returned" =>
                /\ last'.count = ClaimScan(cached_result')
                /\ cached_result = <<>> => decrypt_calls' = decrypt_calls + 1
                /\ cached_result # <<>> => decrypt_calls' = decrypt_calls]_vars

C10_Witness ==
    /\ calls = 3
    /\ Len(counts) = 2
    /\ Len(rets) = 1
    /\ counts[1] = 3
    /\ decrypt_calls = 1
    /\ last.op = "get_relay_count"

\* ---------------------------------------------------------------------
\* chacha20_decrypt on its own: one buffer decrypted, then decrypted again
\* ---------------------------------------------------------------------
Ramp(n) == <<>> \o [i \in 1..n |-> (37 * i + 11) % 256]

CipherKeys == {DeobfuscateKey(MaterialA), <<>> \o [i \in 1..KEY_LEN |-> i - 1]}
CipherNonces == {NonceField, Zeros(8)}
CipherLens == {0, 1, BLOCK_LEN - 1, BLOCK_LEN, BLOCK_LEN + 1, 2 * BLOCK_LEN,
               MaxCipherLen}
CipherInputs == {Zeros(n) : n \in CipherLens} \cup {Ramp(n) : n \in CipherLens}

IdleMain ==
    /\ KEY_MATERIAL = <<>>
    /\ ENCRYPTED_RELAYS = <<>>
    /\ cached_result = <<>>
    /\ key = <<>>
    /\ last = [op |-> "none"]
    /\ calls = 0
    /\ decrypt_calls = 0
    /\ rets = <<>>
    /\ counts = <<>>
    /\ cache_buf = 0
    /\ torn = 0
    /\ thr = IdleThreads

mainVars == <<KEY_MATERIAL, ENCRYPTED_RELAYS, cached_result, key, last, calls,
              decrypt_calls, rets, counts, cache_buf, torn, thr>>

InitCipher ==
    /\ IdleMain
    /\ pair = IdlePair
    /\ demo = IdleDemo
    /\ \E k \in CipherKeys, n \in CipherNonces, in \in CipherInputs :
        cipher = [stage |-> "input", key |-> k, nonce |-> n, input |-> in,
                  out1 |-> <<>>, out2 |-> <<>>]

\* chacha20_decrypt(out1, input, len, key, nonce)
cipher_decrypt ==
    /\ cipher.stage = "input"
    /\ cipher' = [cipher EXCEPT
                    !.stage = "once",
                    !.out1 = chacha20_decrypt(new_bytes(Len(cipher.input)),
                                              cipher.input, Len(cipher.input),
                                              cipher.key, cipher.nonce)]
    /\ UNCHANGED <<mainVars, pair, demo>>

\* chacha20_decrypt(out2, out1, len, key, nonce)
cipher_redecrypt ==
    /\ cipher.stage = "once"
    /\ cipher' = [cipher EXCEPT
                    !.stage = "twice",
                    !.out2 = chacha20_decrypt(new_bytes(Len(cipher.out1)),
                                              cipher.out1, Len(cipher.out1),
                                              cipher.key, cipher.nonce)]
    /\ UNCHANGED <<mainVars, pair, demo>>

NextCipher == cipher_decrypt \/ cipher_redecrypt

SpecCipher == InitCipher /\ [][NextCipher]_vars

\* C8: decrypting the result of a decryption with the same key and nonce
\* gives back the original bytes, for every length.
C8_DecryptTwiceIsIdentity ==
    cipher.stage = "twice" => cipher.out2 = cipher.input

C8_Witness ==
    /\ cipher.stage = "twice"
    /\ Len(cipher.input) = BLOCK_LEN + 1
    /\ cipher.out1 # cipher.input
    /\ cipher.out2 = cipher.input

\* the 64 keystream bytes of the block whose counter word is ctr
KeystreamOfCounter(k, nonce, ctr) ==
    chacha20_block([InitState(k, nonce) EXCEPT ![12] = <<ctr, 0>>])

\* C9: chunk i (0-based) of the output is the input chunk XORed position by
\* position with the keystream block of counter i + 1, and the last chunk
\* takes only as many keystream bytes as it has.
C9_ChunkUsesCounterPlusOne ==
    cipher.stage \in {"once", "twice"} =>
        /\ Len(cipher.out1) = Len(cipher.input)
        /\ \A c \in 0..((Len(cipher.input) + BLOCK_LEN - 1) \div BLOCK_LEN) - 1 :
            \E ks \in {KeystreamOfCounter(cipher.key, cipher.nonce, c + 1)} :
                \A p \in (BLOCK_LEN * c + 1)..(BLOCK_LEN * c + BLOCK_LEN) :
                    p <= Len(cipher.input) =>
                        cipher.out1[p] =
                            XorByte(cipher.input[p],
                                    KeystreamByte(ks, p - BLOCK_LEN * c - 1))

C9_Witness ==
    /\ cipher.stage = "once"
    /\ Len(cipher.input) = 2 * BLOCK_LEN + 1
    /\ cipher.out1 # cipher.input

\* ---------------------------------------------------------------------
\* Two builds that differ only in bytes the decryptor should not read
\* ---------------------------------------------------------------------
\* offsets (1-based) of nonce-field bytes 8..23 and of the 16 tag bytes
UnusedOffsets(blob) ==
    (9..NONCE_FIELD) \cup ((Len(blob) - TAG_LEN + 1)..Len(blob))

ProbedOffsets(blob) ==
    {9, 12, 13, 17, NONCE_FIELD, Len(blob) - TAG_LEN + 1, Len(blob)}

Variants(blob) ==
    {[blob EXCEPT ![p] = (blob[p] + d) % 256] :
        p \in ProbedOffsets(blob) \cap UnusedOffsets(blob), d \in {1, 128}}
    \cup
    {[p \in 1..Len(blob) |->
        IF p \in UnusedOffsets(blob) THEN 255 - blob[p] ELSE blob[p]]}

PairTexts ==
    {ExampleJson, QuotedList, <<QUOTE, SLASH, QUOTE, NUL, SLASH, QUOTE>>, <<>>}

InitPair ==
    /\ IdleMain
    /\ cipher = IdleCipher
    /\ demo = IdleDemo
    /\ \E m \in {MaterialA, MaterialB}, t \in PairTexts :
        \E a \in {EmbeddedBlob(m, NonceField, t, Tag)} :
            \E b \in Variants(a) :
                pair = [stage |-> "on", material |-> m, blobA |-> a, blobB |-> b,
                        ranA |-> FALSE, ranB |-> FALSE,
                        outA |-> [outcome |-> "none", ret |-> <<>>],
                        outB |-> [outcome |-> "none", ret |-> <<>>]]

\* the first get_edge_relays call of the build embedding blobA
pair_run_A ==
    /\ pair.stage = "on"
    /\ ~pair.ranA
    /\ \E r \in {get_edge_relays_call(pair.material, pair.blobA, <<>>,
                                      Zeros(KEY_LEN), "none")} :
        pair' = [pair EXCEPT !.ranA = TRUE,
                             !.outA = [outcome |-> r.outcome, ret |-> r.ret]]
    /\ UNCHANGED <<mainVars, cipher, demo>>

\* the first get_edge_relays call of the build embedding blobB
pair_run_B ==
    /\ pair.stage = "on"
    /\ ~pair.ranB
    /\ \E r \in {get_edge_relays_call(pair.material, pair.blobB, <<>>,
                                      Zeros(KEY_LEN), "none")} :
        pair' = [pair EXCEPT !.ranB = TRUE,
                             !.outB = [outcome |-> r.outcome, ret |-> r.ret]]
    /\ UNCHANGED <<mainVars, cipher, demo>>

NextPair == pair_run_A \/ pair_run_B

SpecPair == InitPair /\ [][NextPair]_vars

\* C6: two blobs that differ only in bytes 8..23 of the nonce field or in
\* the 16 tag bytes give the same plaintext, and neither gives an error.
C6_UnusedBytesIgnored ==
    /\ pair.stage = "on" =>
        \A p \in 1..Len(pair.blobA) :
            pair.blobA[p] # pair.blobB[p] => p \in UnusedOffsets(pair.blobA)
    /\ (pair.stage = "on" /\ pair.ranA /\ pair.ranB) =>
        /\ pair.outA.ret = pair.outB.ret
        /\ pair.outA.outcome = "returned"
        /\ pair.outB.outcome = "returned"

C6_Witness ==
    /\ pair.stage = "on"
    /\ pair.ranA
    /\ pair.ranB
    /\ pair.blobA[9] # pair.blobB[9]
    /\ pair.blobA[Len(pair.blobA)] # pair.blobB[Len(pair.blobB)]
    /\ pair.outA.ret = ExampleJson
    /\ pair.outB.ret = ExampleJson

\* ---------------------------------------------------------------------
\* Two threads calling get_edge_relays with the cache unpopulated.
\* cached_result is an unsynchronised std::string: a read that overlaps a
\* write of it, and a read through a pointer the string has since released,
\* are undefined; each is modelled as a choice over what a build can give.
\* ---------------------------------------------------------------------
Threads == {1, 2}

ConcTexts == {ExampleJson, QuotedList}

\* what a caller can read through a pointer into storage that was released
\* or is being written: the old bytes still intact, nothing, or a part
StaleReads(text) == {text, <<>>, SubSeq(text, 1, Len(text) \div 2)}

InitConc ==
    /\ \E t \in ConcTexts :
        /\ KEY_MATERIAL = MaterialA
        /\ ENCRYPTED_RELAYS = EmbeddedBlob(MaterialA, NonceField, t, Tag)
    /\ cached_result = <<>>
    /\ key = Zeros(KEY_LEN)
    /\ last = [op |-> "none"]
    /\ calls = 0
    /\ decrypt_calls = 0
    /\ rets = <<>>
    /\ counts = <<>>
    /\ cache_buf = 0
    /\ torn = 0
    /\ thr = [t \in Threads |->
                [pc |-> "check", dec |-> <<>>, ptr |-> 0, obs |-> <<>>]]
    /\ cipher = IdleCipher
    /\ pair = IdlePair
    /\ demo = IdleDemo

concFrame == <<KEY_MATERIAL, ENCRYPTED_RELAYS, key, last, calls, rets, counts,
               cipher, pair, demo>>

\* if (!cached_result.empty())
t_check(t) ==
    /\ thr[t].pc = "check"
    /\ \E nonempty \in IF torn \notin {0, t}
                       THEN BOOLEAN
                       ELSE {cached_result # <<>>} :
        thr' = [thr EXCEPT ![t].pc = IF nonempty THEN "return" ELSE "decrypt"]
    /\ UNCHANGED <<concFrame, cached_result, decrypt_calls, cache_buf, torn>>

\* key[], chacha20_decrypt, decrypted[ciphertext_len] = 0 and the temporary
\* std::string((char*)decrypted)
t_decrypt(t) ==
    /\ thr[t].pc = "decrypt"
    /\ thr' = [thr EXCEPT
                ![t].pc = "assign",
                ![t].dec = CStr(DecryptedBuffer(KEY_MATERIAL, ENCRYPTED_RELAYS))]
    /\ decrypt_calls' = decrypt_calls + 1
    /\ UNCHANGED <<concFrame, cached_result, cache_buf, torn>>

\* cached_result = ...: the assignment starts writing the string object
t_assign_begin(t) ==
    /\ thr[t].pc = "assign"
    /\ torn' = t
    /\ thr' = [thr EXCEPT ![t].pc = "assigning"]
    /\ UNCHANGED <<concFrame, cached_result, decrypt_calls, cache_buf>>

\* cached_result = ...: the string now owns the temporary's buffer (the
\* buffer of thread t) and has released the one it owned before
t_assign_end(t) ==
    /\ thr[t].pc = "assigning"
    /\ cached_result' = thr[t].dec
    /\ cache_buf' = t
    /\ torn' = IF torn = t THEN 0 ELSE torn
    /\ thr' = [thr EXCEPT ![t].pc = "return"]
    /\ UNCHANGED <<concFrame, decrypt_calls>>

\* return cached_result.c_str();
t_return(t) ==
    /\ thr[t].pc = "return"
    /\ \E p \in IF torn \notin {0, t} THEN {cache_buf, 0} ELSE {cache_buf} :
        thr' = [thr EXCEPT ![t].pc = "use", ![t].ptr = p]
    /\ UNCHANGED <<concFrame, cached_result, decrypt_calls, cache_buf, torn>>

\* the caller reads the text at the returned pointer
t_use(t) ==
    /\ thr[t].pc = "use"
    /\ \E text \in IF thr[t].ptr = cache_buf /\ thr[t].ptr # 0 /\ torn = 0
                   THEN {cached_result}
                   ELSE StaleReads(cached_result) :
        thr' = [thr EXCEPT ![t].pc = "done", ![t].obs = text]
    /\ UNCHANGED <<concFrame, cached_result, decrypt_calls, cache_buf, torn>>

NextConc ==
    \E t \in Threads :
        \/ t_check(t)
        \/ t_decrypt(t)
        \/ t_assign_begin(t)
        \/ t_assign_end(t)
        \/ t_return(t)
        \/ t_use(t)

SpecConc == InitConc /\ [][NextConc]_vars

\* C4: under every interleaving of two concurrent first calls, both callers
\* read the correct plaintext and the cache ends holding it.
C4_BothCallersCorrect ==
    (\E t \in Threads : thr[t].pc = "done") =>
        \E correct \in {CStr(DecryptedBuffer(KEY_MATERIAL, ENCRYPTED_RELAYS))} :
            /\ \A t \in Threads : thr[t].pc = "done" => thr[t].obs = correct
            /\ (\A t \in Threads : thr[t].pc = "done") => cached_result = correct

\* ---------------------------------------------------------------------
\* demo.c: demo_fibonacci and demo_factorial, one loop iteration per step.
\* int32_t is IntBits bits wide and int64_t twice that; arithmetic wraps
\* (two's complement, as the wasm32 instructions do).
\* ---------------------------------------------------------------------
INT_MAX == (2 ^ (IntBits - 1)) - 1
INT_MIN == -(2 ^ (IntBits - 1))

\* the value of x in a signed integer of `bits` bits
Wrap(x, bits) == ((x + 2 ^ (bits - 1)) % (2 ^ bits)) - 2 ^ (bits - 1)

InitDemo ==
    /\ IdleMain
    /\ cipher = IdleCipher
    /\ pair = IdlePair
    /\ \E f \in {"demo_fibonacci", "demo_factorial"}, n \in INT_MIN..INT_MAX :
        demo = [pc |-> "entry", fn |-> f, n |-> n, i |-> 0, a |-> 0, b |-> 0,
                result |-> 0]

\* if (n <= 0) return 0; if (n == 1) return 1; int32_t a = 0, b = 1; i = 2
fib_entry ==
    /\ demo.pc = "entry"
    /\ demo.fn = "demo_fibonacci"
    /\ demo' = IF demo.n <= 0 THEN [demo EXCEPT !.pc = "done", !.result = 0]
               ELSE IF demo.n = 1 THEN [demo EXCEPT !.pc = "done", !.result = 1]
               ELSE [demo EXCEPT !.pc = "loop", !.a = 0, !.b = 1, !.i = 2]
    /\ UNCHANGED <<mainVars, cipher, pair>>

\* i <= n: tmp = a + b; a = b; b = tmp; i++   (i++ wraps at INT_MAX)
fib_iterate ==
    /\ demo.pc = "loop"
    /\ demo.fn = "demo_fibonacci"
    /\ demo.i <= demo.n
    /\ demo' = [demo EXCEPT !.a = demo.b,
                            !.b = Wrap(demo.a + demo.b, IntBits),
                            !.i = Wrap(demo.i + 1, IntBits)]
    /\ UNCHANGED <<mainVars, cipher, pair>>

\* !(i <= n): return b
fib_return ==
    /\ demo.pc = "loop"
    /\ demo.fn = "demo_fibonacci"
    /\ ~(demo.i <= demo.n)
    /\ demo' = [demo EXCEPT !.pc = "done", !.result = demo.b]
    /\ UNCHANGED <<mainVars, cipher, pair>>

\* if (n < 0) return -1; int64_t result = 1; i = 2
fact_entry ==
    /\ demo.pc = "entry"
    /\ demo.fn = "demo_factorial"
    /\ demo' = IF demo.n < 0 THEN [demo EXCEPT !.pc = "done", !.result = -1]
               ELSE [demo EXCEPT !.pc = "loop", !.result = 1, !.i = 2]
    /\ UNCHANGED <<mainVars, cipher, pair>>

\* i <= n: result *= i; i++   (i++ wraps at INT_MAX)
fact_iterate ==
    /\ demo.pc = "loop"
    /\ demo.fn = "demo_factorial"
    /\ demo.i <= demo.n
    /\ demo' = [demo EXCEPT !.result = Wrap(demo.result * demo.i, 2 * IntBits),
                            !.i = Wrap(demo.i + 1, IntBits)]
    /\ UNCHANGED <<mainVars, cipher, pair>>

\* !(i <= n): return result
fact_return ==
    /\ demo.pc = "loop"
    /\ demo.fn = "demo_factorial"
    /\ ~(demo.i <= demo.n)
    /\ demo' = [demo EXCEPT !.pc = "done"]
    /\ UNCHANGED <<mainVars, cipher, pair>>

\* i++ at i = INT_MAX overflows a signed int, which C leaves undefined:
\* besides wrapping (fib_iterate, fact_iterate) a build may have derived the
\* trip count n - 1 from "i never overflows" and leave the loop here
loop_exit_on_overflow ==
    /\ demo.pc = "loop"
    /\ demo.i = INT_MAX
    /\ demo.i <= demo.n
    /\ demo' = IF demo.fn = "demo_fibonacci"
               THEN [demo EXCEPT !.pc = "done",
                                 !.result = Wrap(demo.a + demo.b, IntBits)]
               ELSE [demo EXCEPT !.pc = "done",
                                 !.result = Wrap(demo.result * demo.i, 2 * IntBits)]
    /\ UNCHANGED <<mainVars, cipher, pair>>

NextDemo ==
    \/ fib_entry
    \/ fib_iterate
    \/ fib_return
    \/ fact_entry
    \/ fact_iterate
    \/ fact_return
    \/ loop_exit_on_overflow

\* a called function keeps running: some step is taken while one is enabled
SpecDemo == InitDemo /\ [][NextDemo]_vars /\ WF_vars(NextDemo)

\* C5: demo_fibonacci(n) and demo_factorial(n) terminate and return a value
\* for every n of the int32_t range, the largest one included.
C5_DemoTerminates == <>(demo.pc = "done")

====
